---------------------------- MODULE Spec2Model ----------------------------
(***************************************************************************)
(* Model of pages/containers.go (cAdvisor, page for /containers/): the     *)
(* template functions that derive display values from a container's spec,  *)
(* its window of samples and the machine info, and serveContainersPage,    *)
(* which fetches both from the manager, builds the breadcrumb links and    *)
(* executes the page template.                                             *)
(*                                                                         *)
(* Go's uint64, int and float64 are kept at their real width.  TLC's own   *)
(* integers are 32 bits wide, so a 64-bit quantity is a little-endian      *)
(* sequence of 16-bit limbs (<<>> is zero, the top limb is never zero) and *)
(* a float64 is a 53-bit mantissa with a binary exponent.  Go strings are  *)
(* sequences of one-character strings.                                     *)
(***************************************************************************)
EXTENDS Integers, Sequences, FiniteSets, TLC

VARIABLES
  spec,      \* the container's spec: spec.Memory.Limit
  stats,     \* the window of samples, oldest first
  machine,   \* the machine info: machine.MemoryCapacity
  limit,     \* getFsUsagePercent's limit
  used,      \* getFsUsagePercent's used
  bytes,     \* the argument of printSize and printUnit
  mask,      \* printMask's mask
  numCores,  \* printMask's numCores
  call,      \* the template function that ran last, "none" before any
  ret,       \* what it returned, or the panic it ended in
  urlPath,   \* serveContainersPage: u.Path
  pc,        \* where the run of serveContainersPage stands
  cont,      \* what m.GetContainerInfo returned
  machineInfo, \* what m.GetMachineInfo returned
  mgrErr,    \* the error the manager returned, NilError if none
  data,      \* the pageData handed to the template
  tmplErr,   \* the error pageTemplate.Execute returned
  written,   \* whether anything was written to w
  result,    \* the error serveContainersPage returned
  getContainerInfoCalls, \* how often the manager's GetContainerInfo was called
  getMachineInfoCalls    \* how often the manager's GetMachineInfo was called

funcVars == <<spec, stats, machine, limit, used, bytes, mask, numCores, call, ret>>

pageVars ==
  <<urlPath, pc, cont, machineInfo, mgrErr, data, tmplErr, written, result,
    getContainerInfoCalls, getMachineInfoCalls>>

vars == <<funcVars, pageVars>>

(***************************************************************************)
(* Unsigned integers of any width: the arithmetic Go does on uint64        *)
(***************************************************************************)
Base == 2^16

RECURSIVE Trim(_)
Trim(a) ==
  IF a = <<>> THEN <<>>
  ELSE IF a[Len(a)] = 0 THEN Trim(SubSeq(a, 1, Len(a) - 1))
  ELSE a

RECURSIVE BigOf(_)
BigOf(n) == IF n = 0 THEN <<>> ELSE <<n % Base>> \o BigOf(n \div Base)

Limb(a, i) == IF i <= Len(a) THEN a[i] ELSE 0

MaxOf(x, y) == IF x >= y THEN x ELSE y

MinOf(x, y) == IF x <= y THEN x ELSE y

RECURSIVE CmpFrom(_, _, _)
CmpFrom(a, b, i) ==
  IF i = 0 THEN 0
  ELSE IF a[i] > b[i] THEN 1
  ELSE IF a[i] < b[i] THEN -1
  ELSE CmpFrom(a, b, i - 1)

\* -1, 0, 1 as a < b, a = b, a > b
Cmp(a, b) ==
  IF Len(a) > Len(b) THEN 1
  ELSE IF Len(a) < Len(b) THEN -1
  ELSE CmpFrom(a, b, Len(a))

Ge(a, b) == Cmp(a, b) >= 0

Gt(a, b) == Cmp(a, b) > 0

RECURSIVE AddFrom(_, _, _, _)
AddFrom(a, b, i, c) ==
  IF i > MaxOf(Len(a), Len(b))
  THEN (IF c = 0 THEN <<>> ELSE <<c>>)
  ELSE LET s == Limb(a, i) + Limb(b, i) + c
       IN  <<s % Base>> \o AddFrom(a, b, i + 1, s \div Base)

Add(a, b) == AddFrom(a, b, 1, 0)

RECURSIVE SubFrom(_, _, _, _)
SubFrom(a, b, i, c) ==
  IF i > Len(a) THEN <<>>
  ELSE LET s == a[i] - Limb(b, i) - c
       IN  IF s < 0 THEN <<s + Base>> \o SubFrom(a, b, i + 1, 1)
           ELSE <<s>> \o SubFrom(a, b, i + 1, 0)

\* a - b, for a >= b
Sub(a, b) == Trim(SubFrom(a, b, 1, 0))

RECURSIVE MulFrom(_, _, _, _)
MulFrom(a, k, i, c) ==
  IF i > Len(a)
  THEN (IF c = 0 THEN <<>> ELSE <<c>>)
  ELSE LET s == a[i] * k + c
       IN  <<s % Base>> \o MulFrom(a, k, i + 1, s \div Base)

\* a * k, for 0 <= k < 2^15
MulSmall(a, k) == IF k = 0 THEN <<>> ELSE MulFrom(a, k, 1, 0)

RECURSIVE DivFrom(_, _, _, _)
DivFrom(a, k, i, r) ==
  IF i = 0 THEN <<>>
  ELSE LET s == r * Base + a[i]
       IN  DivFrom(a, k, i - 1, s % k) \o <<s \div k>>

\* a \div k, for 0 < k < 2^15
DivSmall(a, k) == Trim(DivFrom(a, k, Len(a), 0))

RECURSIVE ModFrom(_, _, _, _)
ModFrom(a, k, i, r) ==
  IF i = 0 THEN r ELSE ModFrom(a, k, i - 1, (r * Base + a[i]) % k)

\* a % k, for 0 < k < 2^15
ModSmall(a, k) == ModFrom(a, k, Len(a), 0)

RECURSIVE BitLenSmall(_)
BitLenSmall(n) == IF n = 0 THEN 0 ELSE 1 + BitLenSmall(n \div 2)

\* the number of significant bits of a
BitLen(a) ==
  IF a = <<>> THEN 0 ELSE 16 * (Len(a) - 1) + BitLenSmall(a[Len(a)])

\* bit i of a, bit 0 the lowest
Bit(a, i) == (Limb(a, (i \div 16) + 1) \div (2^(i % 16))) % 2

\* a * 2^k
ShL(a, k) ==
  IF a = <<>> THEN <<>>
  ELSE LET r == k % 16
           h == r \div 2
       IN  [i \in 1..(k \div 16) |-> 0]
             \o MulSmall(MulSmall(a, 2^h), 2^(r - h))

\* a \div 2^k
ShR(a, k) ==
  LET d == k \div 16
      r == k % 16
      h == r \div 2
  IN  IF d >= Len(a) THEN <<>>
      ELSE DivSmall(DivSmall(SubSeq(a, d + 1, Len(a)), 2^h), 2^(r - h))

Pow2(k) == ShL(<<1>>, k)

\* a % 2^k
LowBits(a, k) == Sub(a, ShL(ShR(a, k), k))

\* one step of binary long division: bring down bit i of n
DivStep(n, d, i, st) ==
  LET r2 == Add(Add(st.rem, st.rem), BigOf(Bit(n, i)))
  IN  IF Ge(r2, d)
      THEN [quo |-> Add(Add(st.quo, st.quo), <<1>>), rem |-> Sub(r2, d)]
      ELSE [quo |-> Add(st.quo, st.quo), rem |-> r2]

\* the steps for bits hi down to lo (split in halves to keep the nesting shallow)
RECURSIVE DivRange(_, _, _, _, _)
DivRange(n, d, hi, lo, st) ==
  IF hi < lo THEN st
  ELSE IF hi = lo THEN DivStep(n, d, hi, st)
  ELSE LET mid == (hi + lo + 1) \div 2
           up  == DivRange(n, d, hi, mid, st)
       IN  \* the test makes TLC compute up before it goes on (it evaluates lazily)
           IF up.rem = <<>>
           THEN DivRange(n, d, mid - 1, lo, [quo |-> up.quo, rem |-> <<>>])
           ELSE DivRange(n, d, mid - 1, lo, up)

\* quotient and remainder of n by d, for d > 0 (binary long division)
\* (a one-limb divisor is divided by directly; otherwise the top bits of n that
\* cannot yet hold d start the remainder)
DivMod(n, d) ==
  IF Cmp(n, d) < 0 THEN [quo |-> <<>>, rem |-> n]
  ELSE IF Len(d) = 1 /\ d[1] < 2^15
       THEN [quo |-> DivSmall(n, d[1]), rem |-> BigOf(ModSmall(n, d[1]))]
  ELSE LET k == BitLen(n) - BitLen(d) + 1
       IN  DivRange(n, d, k - 1, 0, [quo |-> <<>>, rem |-> ShR(n, k)])

Quo(n, d) == DivMod(n, d).quo

(***************************************************************************)
(* Go's fixed-width types                                                  *)
(***************************************************************************)
\* uint64: Memory.Usage, Memory.WorkingSet, Memory.Limit, MemoryCapacity, bytes
U64Bits == 64

MaxUint64 == Sub(Pow2(U64Bits), <<1>>)

\* math.MaxInt64
MaxInt64 == Sub(Pow2(U64Bits - 1), <<1>>)

\* a uint64 result: the low 64 bits
WrapU64(a) == LowBits(a, U64Bits)

\* a - b in uint64 (wraps below zero)
SubU64(a, b) == IF Ge(a, b) THEN Sub(a, b) ELSE Sub(Add(Pow2(U64Bits), a), b)

\* int(x) of a uint64 x, int being 64 bits wide: the same bits, two's complement
IntOfU64(x) ==
  IF BitLen(x) = U64Bits
  THEN [neg |-> TRUE, mag |-> Sub(Pow2(U64Bits), x)]
  ELSE [neg |-> FALSE, mag |-> x]

IntOfNat(n) == [neg |-> FALSE, mag |-> BigOf(n)]

(***************************************************************************)
(* float64: the value m * 2^e with m of at most 53 bits (IEEE 754 binary64,*)
(* round to nearest, ties to even), +Inf and NaN.  The exponent never      *)
(* leaves the normal range for the values this file computes.              *)
(***************************************************************************)
MantBits == 53

Fin(m, e) == [cls |-> "fin", m |-> m, e |-> e]

PosInf == [cls |-> "inf", m |-> <<>>, e |-> 0]

NaN == [cls |-> "nan", m |-> <<>>, e |-> 0]

\* the float64 nearest to (n + s) * 2^e, where 0 < s < 1 if sticky and s = 0 if not
\* (a sticky n has more than MantBits + 1 bits)
RoundF(n, sticky, e) ==
  LET sh == BitLen(n) - MantBits
  IN  IF sh <= 0 THEN Fin(n, e)
      ELSE LET q    == ShR(n, sh)
               c    == Cmp(LowBits(n, sh), Pow2(sh - 1))
               up   == c > 0 \/ (c = 0 /\ (sticky \/ Bit(q, 0) = 1))
           IN  Fin(IF up THEN Add(q, <<1>>) ELSE q, e + sh)

\* float64(x) of a uint64 x
F64OfU64(x) == RoundF(x, FALSE, 0)

\* a / b of two finite non-negative float64
F64Div(a, b) ==
  IF b.m = <<>> THEN (IF a.m = <<>> THEN NaN ELSE PosInf)
  ELSE IF a.m = <<>> THEN Fin(<<>>, 0)
  ELSE LET s  == MantBits + 2 + BitLen(b.m) - BitLen(a.m)
           dm == DivMod(ShL(a.m, s), b.m)
       IN  RoundF(dm.quo, dm.rem # <<>>, a.e - b.e - s)

\* a * k for a small integer constant k
F64MulSmall(a, k) ==
  IF a.cls = "fin" THEN RoundF(MulSmall(a.m, k), FALSE, a.e) ELSE a

\* a / 2^k: exact
F64DivPow2(a, k) == Fin(a.m, a.e - k)

\* a >= 2^k
F64GePow2(a, k) == a.m # <<>> /\ BitLen(a.m) + a.e - 1 >= k

\* what uint64(x) can be when x is NaN, +Inf or 2^64 and above: Go leaves the
\* result to the implementation (amd64 gives 2^63 or 0, arm64 saturates)
OutOfRangeU64 == {<<>>, Pow2(U64Bits - 1), MaxUint64}

\* the values uint64(x) can take: x truncated toward zero when it fits
U64OfF64(x) ==
  IF x.cls # "fin" THEN OutOfRangeU64
  ELSE IF x.e >= 0
       THEN (IF BitLen(x.m) + x.e > U64Bits THEN OutOfRangeU64
             ELSE {ShL(x.m, x.e)})
       ELSE {ShR(x.m, 0 - x.e)}

DigitChars == <<"0", "1", "2", "3", "4", "5", "6", "7", "8", "9">>

RECURSIVE DecDigits(_)
DecDigits(a) ==
  IF a = <<>> THEN <<>>
  ELSE DecDigits(DivSmall(a, 10)) \o <<DigitChars[ModSmall(a, 10) + 1]>>

\* the decimal digits of a, "0" for zero (fmt %d)
FormatNat(a) == IF a = <<>> THEN <<"0">> ELSE DecDigits(a)

\* h hundredths as a decimal with two places
FormatHundredths(h) ==
  LET c == ModSmall(h, 100)
  IN  FormatNat(DivSmall(h, 100))
        \o <<".", DigitChars[(c \div 10) + 1], DigitChars[(c % 10) + 1]>>

\* n / 2^k rounded to an integer, ties to even
RoundShift(n, k) ==
  IF k <= 0 THEN ShL(n, 0 - k)
  ELSE LET q  == ShR(n, k)
           c  == Cmp(LowBits(n, k), Pow2(k - 1))
           up == c > 0 \/ (c = 0 /\ Bit(q, 0) = 1)
       IN  IF up THEN Add(q, <<1>>) ELSE q

\* fmt.Sprintf("%.2f", x), strconv.FormatFloat(x, 'f', 2, 64): the exact value
\* of x correctly rounded to two decimals
FormatF2(x) == FormatHundredths(RoundShift(MulSmall(x.m, 100), 0 - x.e))

(***************************************************************************)
(* ByteSize and its units (lines 37-88)                                    *)
(***************************************************************************)
\* the exponents of YB, ZB, EB, PB, TB, GB, MB, KB: 1 << (10 * iota), in the
\* order Size and Unit try them
UnitExps == <<80, 70, 60, 50, 40, 30, 20, 10>>

RECURSIVE SizeFrom(_, _)
SizeFrom(b, i) ==
  IF i > Len(UnitExps) THEN FormatF2(b)
  ELSE IF F64GePow2(b, UnitExps[i]) THEN FormatF2(F64DivPow2(b, UnitExps[i]))
  ELSE SizeFrom(b, i + 1)

\* ByteSize.Size
Size(b) == SizeFrom(b, 1)

\* ByteSize.Unit
Unit(b) ==
  CASE F64GePow2(b, 80) -> <<"Y", "B">>
    [] F64GePow2(b, 70) -> <<"Z", "B">>
    [] F64GePow2(b, 60) -> <<"E", "B">>
    [] F64GePow2(b, 50) -> <<"P", "B">>
    [] F64GePow2(b, 40) -> <<"T", "B">>
    [] F64GePow2(b, 30) -> <<"G", "B">>
    [] F64GePow2(b, 20) -> <<"M", "B">>
    [] F64GePow2(b, 10) -> <<"K", "B">>
    [] OTHER -> <<"B">>

StrUnlimited == <<"u", "n", "l", "i", "m", "i", "t", "e", "d">>

printSize(b) ==
  IF Ge(b, MaxInt64) THEN StrUnlimited ELSE Size(F64OfU64(b))

printUnit(b) ==
  IF Ge(b, MaxInt64) THEN <<>> ELSE Unit(F64OfU64(b))

(***************************************************************************)
(* Memory and filesystem readings (lines 154-220)                          *)
(***************************************************************************)
\* a call's outcome: a returned value, or the runtime panic that ended it
Returns(v) == [panic |-> "", val |-> v]

Panics(msg) == [panic |-> msg, val |-> <<>>]

DivideByZero == "runtime error: integer divide by zero"

toMegabytes(b) == F64DivPow2(F64OfU64(b), 20)

\* the limit saturated to the machine size
EffectiveLimit(s, m) ==
  IF Gt(s.Memory.Limit, m.MemoryCapacity) THEN m.MemoryCapacity
  ELSE s.Memory.Limit

toMemoryPercent(usage, s, m) ==
  LET lim == EffectiveLimit(s, m)
  IN  IF lim = <<>> THEN Panics(DivideByZero)
      ELSE Returns(IntOfU64(Quo(WrapU64(MulSmall(usage, 100)), lim)))

Latest(st) == st[Len(st)]

getMemoryUsage(st) ==
  IF Len(st) = 0 THEN Returns(<<"0", ".", "0">>)
  ELSE Returns(FormatF2(toMegabytes(Latest(st).Memory.Usage)))

\* getMemoryUsagePercent without its check of the window's length: indexing
\* an empty slice panics
getMemoryUsagePercentUnguarded(s, st, m) ==
  IF Len(st) = 0 THEN Panics("runtime error: index out of range")
  ELSE toMemoryPercent(Latest(st).Memory.Usage, s, m)

getMemoryUsagePercent(s, st, m) ==
  IF Len(st) = 0 THEN Returns(IntOfNat(0))
  ELSE toMemoryPercent(Latest(st).Memory.Usage, s, m)

getHotMemoryPercent(s, st, m) ==
  IF Len(st) = 0 THEN Returns(IntOfNat(0))
  ELSE toMemoryPercent(Latest(st).Memory.WorkingSet, s, m)

\* getColdMemoryPercent with the operands of its subtraction swapped
getColdMemoryPercentSwapped(s, st, m) ==
  IF Len(st) = 0 THEN Returns(IntOfNat(0))
  ELSE LET latestStats == Latest(st).Memory
       IN  toMemoryPercent(SubU64(latestStats.WorkingSet, latestStats.Usage),
                           s, m)

getColdMemoryPercent(s, st, m) ==
  IF Len(st) = 0 THEN Returns(IntOfNat(0))
  ELSE LET latestStats == Latest(st).Memory
       IN  toMemoryPercent(SubU64(latestStats.Usage, latestStats.WorkingSet),
                           s, m)

getFsStats(st) ==
  IF Len(st) = 0 THEN Returns(<<>>) ELSE Returns(Latest(st).Filesystem)

\* the values getFsUsagePercent can return (one, unless the float64 is out of
\* uint64's range)
getFsUsagePercent(l, u) ==
  { Returns(v) : v \in U64OfF64(F64MulSmall(F64Div(F64OfU64(u), F64OfU64(l)),
                                            100)) }

(***************************************************************************)
(* The state of serveContainersPage before and outside a run               *)
(***************************************************************************)
ContainersPage == <<"/", "c", "o", "n", "t", "a", "i", "n", "e", "r", "s", "/">>

\* error values: the manager's, those fmt.Errorf makes, and nil
NilError == [origin |-> "nil", msg |-> <<>>]

\* cont, machineInfo and data are pointers: <<>> is nil, <<x>> points to x
PageDefault ==
  /\ urlPath = ContainersPage
  /\ pc = "done"
  /\ cont = <<>>
  /\ machineInfo = <<>>
  /\ mgrErr = NilError
  /\ data = <<>>
  /\ tmplErr = NilError
  /\ written = FALSE
  /\ result = NilError
  /\ getContainerInfoCalls = 0
  /\ getMachineInfoCalls = 0

(***************************************************************************)
(* The inputs the template functions are applied to                        *)
(***************************************************************************)
MaxSmallMem == 2

MaxDelta == 1

MaxWindow == 2

MaxFsLimit == 50

MaxFsUsed == 30

\* byte counts near the places where 64-bit arithmetic changes: 2^58 (times
\* 100 no longer fits), 2^63 (math.MaxInt64, "unlimited"), 2^64 (the largest
\* uint64)
MemExps == {58, 63, 64}

BigMem == { Sub(Pow2(k), BigOf(d)) : k \in MemExps, d \in 1..MaxDelta }

MemValues == { BigOf(i) : i \in 0..MaxSmallMem } \cup BigMem

FsLists == { <<>>, <<[Limit |-> BigOf(200), Usage |-> BigOf(50)]>> }

Samples ==
  { [Memory |-> [Usage |-> u, WorkingSet |-> w], Filesystem |-> f] :
      u \in MemValues, w \in MemValues, f \in FsLists }

\* the samples before the latest one
OldSample ==
  [Memory |-> [Usage |-> BigOf(1), WorkingSet |-> BigOf(1)],
   Filesystem |-> <<[Limit |-> BigOf(1), Usage |-> BigOf(1)]>>]

Windows ==
  {<<>>} \cup
    { [i \in 1..(n - 1) |-> OldSample] \o <<s>> : n \in 1..MaxWindow, s \in Samples }

Specs == { [Memory |-> [Limit |-> l]] : l \in MemValues }

Machines == { [MemoryCapacity |-> c] : c \in MemValues }

FsLimits == { BigOf(i) : i \in 0..MaxFsLimit } \cup BigMem

FsUseds == { BigOf(i) : i \in 0..MaxFsUsed } \cup BigMem

NoRet == Returns(<<>>)

\* the inputs of the functions that a specification does not vary
DefaultSpec == [Memory |-> [Limit |-> BigOf(100)]]

DefaultMachine == [MemoryCapacity |-> BigOf(1000)]

DefaultStats ==
  <<[Memory |-> [Usage |-> BigOf(50), WorkingSet |-> BigOf(20)],
     Filesystem |-> <<[Limit |-> BigOf(200), Usage |-> BigOf(50)]>>]>>

MemoryDefault == spec = DefaultSpec /\ stats = DefaultStats /\ machine = DefaultMachine

FsDefault == limit = BigOf(200) /\ used = BigOf(50)

SizeDefault == bytes = <<>>

MaskDefault == mask = <<>> /\ numCores = 0

(***************************************************************************)
(* The memory and filesystem functions, called as the template calls them  *)
(***************************************************************************)
InitMetrics ==
  /\ \/ spec \in Specs /\ stats \in Windows /\ machine \in Machines /\ FsDefault
     \/ MemoryDefault /\ used \in FsUseds /\ limit \in FsLimits
  /\ SizeDefault /\ MaskDefault
  /\ PageDefault
  /\ call = "none" /\ ret = NoRet

Finish(name, r) ==
  /\ call = "none"
  /\ call' = name
  /\ ret' = r
  /\ UNCHANGED <<spec, stats, machine, limit, used, bytes, mask, numCores>>
  /\ UNCHANGED pageVars

GetMemoryUsage == Finish("getMemoryUsage", getMemoryUsage(stats))

GetMemoryUsagePercent ==
  Finish("getMemoryUsagePercent", getMemoryUsagePercent(spec, stats, machine))

GetHotMemoryPercent ==
  Finish("getHotMemoryPercent", getHotMemoryPercent(spec, stats, machine))

GetColdMemoryPercent ==
  Finish("getColdMemoryPercent", getColdMemoryPercent(spec, stats, machine))

GetFsStats == Finish("getFsStats", getFsStats(stats))

GetFsUsagePercent ==
  \E r \in getFsUsagePercent(limit, used) : Finish("getFsUsagePercent", r)

\* the template goes on to its next field
NextField ==
  /\ call # "none"
  /\ call' = "none"
  /\ ret' = NoRet
  /\ UNCHANGED <<spec, stats, machine, limit, used, bytes, mask, numCores>>
  /\ UNCHANGED pageVars

NextMetrics ==
  \/ GetMemoryUsage
  \/ GetMemoryUsagePercent
  \/ GetHotMemoryPercent
  \/ GetColdMemoryPercent
  \/ GetFsStats
  \/ GetFsUsagePercent
  \/ NextField

SpecMetrics == InitMetrics /\ [][NextMetrics]_vars

(***************************************************************************)
(* Properties of the memory and filesystem functions                       *)
(***************************************************************************)
PercentCalls ==
  {"getMemoryUsagePercent", "getHotMemoryPercent", "getColdMemoryPercent"}

\* min(spec memory limit, machine memory capacity)
MinLimit ==
  IF Ge(machine.MemoryCapacity, spec.Memory.Limit) THEN spec.Memory.Limit
  ELSE machine.MemoryCapacity

\* floor(x * 100 / y) in exact arithmetic
ExactPercent(x, y) == Quo(MulSmall(x, 100), y)

AtMost100(x) == ~ Gt(x, BigOf(100))

\* C1: for a non-empty window and an effective limit min(limit, capacity) > 0,
\* getMemoryUsagePercent returns floor(U * 100 / min(limit, capacity)), U the
\* usage of the last sample, for every uint64 U, also when U * 100 does not
\* fit in 64 bits.
C1_UsagePercentIsExactFloor ==
  (call = "getMemoryUsagePercent" /\ Len(stats) > 0 /\ MinLimit # <<>>)
    => ret = Returns([neg |-> FALSE,
                      mag |-> ExactPercent(Latest(stats).Memory.Usage, MinLimit)])

\* C2: for a non-empty window whose effective limit is 0, each of the three
\* memory percentage functions returns a value: none ends in a runtime fault.
C2_PercentTotalOnZeroLimit ==
  (call \in PercentCalls /\ Len(stats) > 0 /\ MinLimit = <<>>)
    => ret.panic = ""

\* C5: for every limit > 0 and every used, getFsUsagePercent(limit, used) is
\* floor(used * 100 / limit) computed in exact integer arithmetic.
C5_FsPercentIsExactFloor ==
  (call = "getFsUsagePercent" /\ limit # <<>>)
    => ret = Returns(ExactPercent(used, limit))

\* C7: on an empty window the three memory percentage functions return 0,
\* getMemoryUsage returns "0.0" and getFsStats returns the empty sequence,
\* whatever the spec and the machine info (a limit or capacity of 0 included),
\* and none of them faults.
C7_EmptyWindowZero ==
  (Len(stats) = 0 /\ call # "none" /\ call # "getFsUsagePercent")
    => /\ ret.panic = ""
       /\ call \in PercentCalls => ret.val = [neg |-> FALSE, mag |-> <<>>]
       /\ call = "getMemoryUsage" => ret.val = <<"0", ".", "0">>
       /\ call = "getFsStats" => ret.val = <<>>

C7_Witness ==
  /\ Len(stats) = 0
  /\ MinLimit = <<>>
  /\ call = "getMemoryUsagePercent"
  /\ ret = Returns(IntOfNat(0))

\* working-set <= usage <= effective limit, effective limit > 0, on a
\* non-empty window
NormalMemoryInput ==
  /\ Len(stats) > 0
  /\ MinLimit # <<>>
  /\ Ge(Latest(stats).Memory.Usage, Latest(stats).Memory.WorkingSet)
  /\ Ge(MinLimit, Latest(stats).Memory.Usage)

\* C8: under normal input the three memory percentages are integers in
\* [0, 100], and getFsUsagePercent(limit, used) is in [0, 100] whenever
\* 0 < limit and used <= limit.
C8_PercentInRange ==
  /\ (call \in PercentCalls /\ NormalMemoryInput)
       => ret.panic = "" /\ ~ ret.val.neg /\ AtMost100(ret.val.mag)
  /\ (call = "getFsUsagePercent" /\ limit # <<>> /\ Ge(limit, used))
       => ret.panic = "" /\ AtMost100(ret.val)

\* a cold percentage of a usage so large that usage * 100 wraps
C8_Witness ==
  /\ call = "getColdMemoryPercent"
  /\ NormalMemoryInput
  /\ BitLen(MulSmall(Latest(stats).Memory.Usage, 100)) > U64Bits
  /\ Latest(stats).Memory.WorkingSet = BigOf(1)
  /\ ret.panic = ""

(***************************************************************************)
(* printSize and printUnit, called as the template calls them              *)
(***************************************************************************)
MaxSmallBytes == 4

\* byte counts at, just below and just above every power of two
SizeInputs ==
  { BigOf(i) : i \in 0..MaxSmallBytes }
    \cup { Sub(Pow2(k), BigOf(d)) : k \in 1..U64Bits, d \in 1..MaxDelta }
    \cup { Add(Pow2(k), BigOf(d)) : k \in 0..(U64Bits - 1), d \in 0..MaxDelta }

InitSize ==
  /\ bytes \in SizeInputs
  /\ MemoryDefault /\ FsDefault /\ MaskDefault
  /\ PageDefault
  /\ call = "none" /\ ret = NoRet

PrintSize == Finish("printSize", Returns(printSize(bytes)))

PrintUnit == Finish("printUnit", Returns(printUnit(bytes)))

NextSize == PrintSize \/ PrintUnit \/ NextField

SpecSize == InitSize /\ [][NextSize]_vars

\* the units in ascending order, unit k having the factor 1024^k
UnitsAscending ==
  << <<"B">>, <<"K", "B">>, <<"M", "B">>, <<"G", "B">>, <<"T", "B">>,
     <<"P", "B">>, <<"E", "B">>, <<"Z", "B">>, <<"Y", "B">> >>

\* the largest k with 1024^k <= b, 0 for b < 1024
LargestUnit(b) ==
  IF b = <<>> THEN 0 ELSE MinOf(Len(UnitsAscending) - 1, (BitLen(b) - 1) \div 10)

\* b / 1024^k to two decimals, of the exact quotient
ExactScaled(b, k) == FormatHundredths(RoundShift(MulSmall(b, 100), 10 * k))

\* C4: printSize(b) is "unlimited" and printUnit(b) is "" for b at or above
\* the maximum signed 64-bit value; otherwise printUnit(b) is the largest unit
\* whose factor 1024^k is <= b ("B" below 1024) and printSize(b) is b divided
\* by the factor of that same unit, to two decimals, also for b just below a
\* unit threshold.
C4_SizeAndUnitOfLargestUnit ==
  /\ call = "printUnit" =>
       ret.val = IF Ge(bytes, MaxInt64) THEN <<>>
                 ELSE UnitsAscending[LargestUnit(bytes) + 1]
  /\ call = "printSize" =>
       ret.val = IF Ge(bytes, MaxInt64) THEN StrUnlimited
                 ELSE ExactScaled(bytes, LargestUnit(bytes))

(***************************************************************************)
(* printMask and getActiveCores (lines 104-143)                            *)
(***************************************************************************)
\* the index of the first sep in s, 0 if there is none
RECURSIVE IndexFrom(_, _, _)
IndexFrom(s, sep, i) ==
  IF i > Len(s) THEN 0
  ELSE IF s[i] = sep THEN i
  ELSE IndexFrom(s, sep, i + 1)

\* strings.Split(s, sep) for a one-character sep: always at least one part
RECURSIVE Split(_, _)
Split(s, sep) ==
  LET i == IndexFrom(s, sep, 1)
  IN  IF i = 0 THEN <<s>>
      ELSE <<SubSeq(s, 1, i - 1)>> \o Split(SubSeq(s, i + 1, Len(s)), sep)

Digits == {"0", "1", "2", "3", "4", "5", "6", "7", "8", "9"}

DigitValue(c) == CHOOSE d \in 0..9 : DigitChars[d + 1] = c

RECURSIVE ParseDigits(_, _, _)
ParseDigits(s, i, n) ==
  IF i > Len(s) THEN n ELSE ParseDigits(s, i + 1, n * 10 + DigitValue(s[i]))

\* strconv.Atoi: an optional sign and one or more decimal digits, anything
\* else is an error (the masks here are too short to leave int's range)
Atoi(s) ==
  LET signed == s # <<>> /\ s[1] \in {"+", "-"}
      body   == IF signed THEN Tail(s) ELSE s
  IN  IF body = <<>> \/ \E i \in 1..Len(body) : body[i] \notin Digits
      THEN [err |-> "invalid syntax", n |-> 0]
      ELSE [err |-> "",
            n |-> IF signed /\ s[1] = "-" THEN 0 - ParseDigits(body, 1, 0)
                  ELSE ParseDigits(body, 1, 0)]

\* the loop over a range's cores with its last core left out
RangeCoresExclusive(start, end) == start..(end - 1)

\* for i := start; i <= end; i++ { activeCores[i] = true }
RangeCores(start, end) == start..end

\* what one entry of the mask adds to activeCores
CoreBits(corebits) ==
  LET cores == Split(corebits, "-")
  IN  IF Len(cores) = 1
      THEN (IF Atoi(cores[1]).err # "" THEN {} ELSE {Atoi(cores[1]).n})
      ELSE IF Len(cores) = 2
      THEN (IF Atoi(cores[1]).err # "" THEN {}
            ELSE IF Atoi(cores[2]).err # "" THEN {}
            ELSE RangeCores(Atoi(cores[1]).n, Atoi(cores[2]).n))
      ELSE {}

RECURSIVE ActiveFrom(_, _, _)
ActiveFrom(entries, i, activeCores) ==
  IF i > Len(entries) THEN activeCores
  ELSE ActiveFrom(entries, i + 1, activeCores \cup CoreBits(entries[i]))

\* the keys of the map getActiveCores returns
getActiveCores(m) == ActiveFrom(Split(m, ","), 1, {})

\* the spans printMask joins with "&nbsp;": <span class="class">n</span>
printMask(m, n) ==
  LET activeCores == getActiveCores(m)
  IN  [i \in 1..n |->
         [class |-> IF (i - 1) \in activeCores THEN "active-cpu"
                    ELSE "inactive-cpu",
          n |-> i - 1]]

MaxMaskLen == 4

MaxCores == 3

MaskChars == {"0", "1", "2", ",", "-", "+", "x"}

Masks == UNION { [1..n -> MaskChars] : n \in 0..MaxMaskLen }

InitMask ==
  /\ mask \in Masks
  /\ numCores \in 0..MaxCores
  /\ MemoryDefault /\ FsDefault /\ SizeDefault
  /\ PageDefault
  /\ call = "none" /\ ret = NoRet

PrintMask == Finish("printMask", Returns(printMask(mask, numCores)))

NextMask == PrintMask \/ NextField

SpecMask == InitMask /\ [][NextMask]_vars

\* an integer as an entry of the mask can hold one: decimal digits, which may
\* follow a plus sign (a dash always separates)
IsInteger(s) ==
  LET body == IF s # <<>> /\ s[1] = "+" THEN Tail(s) ELSE s
  IN  body # <<>> /\ \A i \in 1..Len(body) : body[i] \in Digits

RECURSIVE Power10(_)
Power10(k) == IF k = 0 THEN 1 ELSE 10 * Power10(k - 1)

RECURSIVE SumDigits(_, _)
SumDigits(s, i) ==
  IF i > Len(s) THEN 0
  ELSE DigitValue(s[i]) * Power10(Len(s) - i) + SumDigits(s, i + 1)

IntegerValue(s) == SumDigits(IF s[1] = "+" THEN Tail(s) ELSE s, 1)

\* the cores an entry stands for: {k} for an integer k, {start..end} for
\* start-end of two integers, none for anything else
EntryCores(e) ==
  IF IsInteger(e) THEN {IntegerValue(e)}
  ELSE IF \E i \in 1..Len(e) :
            /\ e[i] = "-"
            /\ IsInteger(SubSeq(e, 1, i - 1))
            /\ IsInteger(SubSeq(e, i + 1, Len(e)))
       THEN LET i == CHOOSE j \in 1..Len(e) : e[j] = "-"
            IN  { k \in 0..MaxCores :
                    /\ IntegerValue(SubSeq(e, 1, i - 1)) <= k
                    /\ k <= IntegerValue(SubSeq(e, i + 1, Len(e))) }
       ELSE {}

\* the comma-separated entries of the mask, as (first, last) positions
EntryBounds ==
  { <<a, b>> \in (1..(Len(mask) + 1)) \X (0..Len(mask)) :
      /\ a <= b + 1
      /\ \A i \in a..b : mask[i] # ","
      /\ a = 1 \/ mask[a - 1] = ","
      /\ b = Len(mask) \/ mask[b + 1] = "," }

ParsedCores == UNION { EntryCores(SubSeq(mask, p[1], p[2])) : p \in EntryBounds }

Last(q) == q[Len(q)]

RECURSIVE JoinWith(_, _)
\* strings.Join(elems, sep)
JoinWith(elems, sep) ==
  IF elems = <<>> THEN <<>>
  ELSE IF Len(elems) = 1 THEN elems[1]
  ELSE elems[1] \o <<sep>> \o JoinWith(Tail(elems), sep)

RECURSIVE CleanFrom(_, _, _, _)
\* the elements path.Clean keeps, in order: none empty or ".", and ".." only
\* where it has no element to remove (it is dropped at the root)
CleanFrom(segs, i, out, rooted) ==
  IF i > Len(segs) THEN out
  ELSE IF segs[i] = <<>> \/ segs[i] = <<".">>
       THEN CleanFrom(segs, i + 1, out, rooted)
  ELSE IF segs[i] = <<".", ".">>
       THEN (IF out # <<>> /\ Last(out) # <<".", ".">>
             THEN CleanFrom(segs, i + 1, SubSeq(out, 1, Len(out) - 1), rooted)
             ELSE IF rooted THEN CleanFrom(segs, i + 1, out, rooted)
             ELSE CleanFrom(segs, i + 1, Append(out, segs[i]), rooted))
  ELSE CleanFrom(segs, i + 1, Append(out, segs[i]), rooted)

\* path.Clean: the shortest path equal to p
Clean(p) ==
  LET rooted == p # <<>> /\ p[1] = "/"
      kept   == CleanFrom(Split(p, "/"), 1, <<>>, rooted)
  IN  IF rooted THEN <<"/">> \o JoinWith(kept, "/")
      ELSE IF kept = <<>> THEN <<".">>
      ELSE JoinWith(kept, "/")

RECURSIVE NonEmpty(_)
NonEmpty(elems) ==
  IF elems = <<>> THEN <<>>
  ELSE IF elems[1] = <<>> THEN NonEmpty(Tail(elems))
  ELSE <<elems[1]>> \o NonEmpty(Tail(elems))

\* path.Join: the non-empty elements joined with slashes and cleaned, "" if
\* there is none
Join(elems) ==
  IF NonEmpty(elems) = <<>> THEN <<>>
  ELSE Clean(JoinWith(NonEmpty(elems), "/"))

ErrNotFound == [origin |-> "manager", msg |-> <<"unknown container">>]

ErrUpstream == [origin |-> "manager", msg |-> <<"manager failure">>]

ManagerErrors == {ErrNotFound, ErrUpstream}

\* fmt.Errorf("Failed to get container %q with error: %v", containerName, err)
\* (no character of the names here needs escaping in %q)
Errorf(containerName, err) ==
  [origin |-> "fmt.Errorf",
   msg |-> <<"Failed to get container ", "\"">> \o containerName
             \o <<"\"", " with error: ">> \o err.msg]

\* u.Path[len(ContainersPage)-1:]
ContainerName(path) == SubSeq(path, Len(ContainersPage), Len(path))

\* the failed GetContainerInfo's error handed back as it came
ContainerInfoErrorVerbatim(containerName, err) == err

\* what serveContainersPage returns when GetContainerInfo fails
ContainerInfoError(containerName, err) == Errorf(containerName, err)

\* what serveContainersPage returns when GetMachineInfo fails
MachineInfoError(err) == err

\* the result with the template's error returned
ExecuteResultPropagated(err) == err

\* what serveContainersPage returns after pageTemplate.Execute: the error is
\* logged only
ExecuteResult(err) == NilError

\* the link of the breadcrumb with one part too few
ParentLinkShort(pathParts, i) ==
  Join(<<ContainersPage, Join(SubSeq(pathParts, 2, i - 1))>>)

\* path.Join(ContainersPage, path.Join(pathParts[1:i+1]...)) for the part at
\* index i, counted from 1 here
ParentLink(pathParts, i) ==
  Join(<<ContainersPage, Join(SubSeq(pathParts, 2, i))>>)

RECURSIVE ParentsFrom(_, _, _)
\* for i := 1; i < len(pathParts); i++: the parts from the second on
ParentsFrom(pathParts, i, parentContainers) ==
  IF i > Len(pathParts) THEN parentContainers
  ELSE IF pathParts[i] = <<>>
       THEN ParentsFrom(pathParts, i + 1, parentContainers)
  ELSE ParentsFrom(pathParts, i + 1,
         Append(parentContainers,
                [Text |-> pathParts[i], Link |-> ParentLink(pathParts, i)]))

\* the list of the parent containers and their links
ParentContainers(name) ==
  ParentsFrom(Split(name, "/"), 2,
              <<[Text |-> <<"r", "o", "o", "t">>, Link |-> ContainersPage]>>)

\* getContainerDisplayName: the last path segment, "root" for the root
getContainerDisplayName(ref) ==
  IF NonEmpty(Split(ref.Name, "/")) = <<>> THEN <<"r", "o", "o", "t">>
  ELSE Last(NonEmpty(Split(ref.Name, "/")))

\* the links for the subcontainers
SubcontainerLinks(subs) ==
  [k \in 1..Len(subs) |->
     [Text |-> getContainerDisplayName(subs[k]),
      Link |-> Join(<<ContainersPage, subs[k].Name>>)]]

PageData(c, mi) ==
  [DisplayName        |-> getContainerDisplayName([Name |-> c.Name]),
   ContainerName      |-> c.Name,
   ParentContainers   |-> ParentContainers(c.Name),
   Subcontainers      |-> SubcontainerLinks(c.Subcontainers),
   Spec               |-> c.Spec,
   Stats              |-> c.Stats,
   MachineInfo        |-> mi,
   ResourcesAvailable |-> c.Spec.HasCpu \/ c.Spec.HasMemory
                            \/ c.Spec.HasNetwork \/ c.Spec.HasFilesystem,
   CpuAvailable       |-> c.Spec.HasCpu,
   MemoryAvailable    |-> c.Spec.HasMemory,
   NetworkAvailable   |-> c.Spec.HasNetwork,
   FsAvailable        |-> c.Spec.HasFilesystem]

MaxNameLen == 4

MaxUrlLen == 1

PathChars == {"/", "a", "b", "."}

PathsUpTo(n) == UNION { [1..k -> PathChars] : k \in 0..n }

\* the container specs the manager hands out: nothing available, memory only
ContSpecs ==
  { [HasCpu |-> FALSE, HasMemory |-> m, HasNetwork |-> FALSE,
     HasFilesystem |-> FALSE, Memory |-> [Limit |-> BigOf(100)]] :
      m \in BOOLEAN }

SubcontainerLists == { <<>>, <<[Name |-> <<"/", "a", "/", "b">>]>> }

\* what GetContainerInfo can return when it succeeds: the manager chooses the
\* name, the spec and the subcontainers
ContainerInfos ==
  { [Name |-> n, Spec |-> sp, Stats |-> DefaultStats, Subcontainers |-> subs] :
      n \in PathsUpTo(MaxNameLen), sp \in ContSpecs, subs \in SubcontainerLists }

InitPage ==
  /\ urlPath \in { ContainersPage \o rest : rest \in PathsUpTo(MaxUrlLen) }
  /\ pc = "getContainerInfo"
  /\ cont = <<>>
  /\ machineInfo = <<>>
  /\ mgrErr = NilError
  /\ data = <<>>
  /\ tmplErr = NilError
  /\ written = FALSE
  /\ result = NilError
  /\ getContainerInfoCalls = 0
  /\ getMachineInfoCalls = 0
  /\ spec = DefaultSpec /\ stats = DefaultStats /\ machine = DefaultMachine
  /\ limit = BigOf(200) /\ used = BigOf(50)
  /\ bytes = <<>> /\ mask = <<>> /\ numCores = 0
  /\ call = "none" /\ ret = [panic |-> "", val |-> <<>>]

\* cont, err := m.GetContainerInfo(containerName, &reqParams) succeeds
GetContainerInfoOk ==
  /\ pc = "getContainerInfo"
  /\ getContainerInfoCalls' = getContainerInfoCalls + 1
  /\ cont' \in { <<c>> : c \in ContainerInfos }
  /\ pc' = "getMachineInfo"
  /\ UNCHANGED <<urlPath, machineInfo, mgrErr, data, tmplErr, written, result,
                 getMachineInfoCalls>>
  /\ UNCHANGED funcVars

\* it fails: serveContainersPage returns
GetContainerInfoFails ==
  /\ pc = "getContainerInfo"
  /\ getContainerInfoCalls' = getContainerInfoCalls + 1
  /\ mgrErr' \in ManagerErrors
  /\ result' = ContainerInfoError(ContainerName(urlPath), mgrErr')
  /\ pc' = "done"
  /\ UNCHANGED <<urlPath, cont, machineInfo, data, tmplErr, written,
                 getMachineInfoCalls>>
  /\ UNCHANGED funcVars

\* machineInfo, err := m.GetMachineInfo() succeeds
GetMachineInfoOk ==
  /\ pc = "getMachineInfo"
  /\ getMachineInfoCalls' = getMachineInfoCalls + 1
  /\ machineInfo' = <<DefaultMachine>>
  /\ pc' = "execute"
  /\ UNCHANGED <<urlPath, cont, mgrErr, data, tmplErr, written, result,
                 getContainerInfoCalls>>
  /\ UNCHANGED funcVars

\* it fails: serveContainersPage returns
GetMachineInfoFails ==
  /\ pc = "getMachineInfo"
  /\ getMachineInfoCalls' = getMachineInfoCalls + 1
  /\ mgrErr' \in ManagerErrors
  /\ result' = MachineInfoError(mgrErr')
  /\ pc' = "done"
  /\ UNCHANGED <<urlPath, cont, machineInfo, data, tmplErr, written,
                 getContainerInfoCalls>>
  /\ UNCHANGED funcVars

TemplateError == [origin |-> "template", msg |-> <<"template: execution failed">>]

\* the links and the page data are built and the template is executed; it
\* may fail, before or after it has written part of the page
Execute ==
  /\ pc = "execute"
  /\ data' = <<PageData(cont[1], machineInfo[1])>>
  /\ \/ tmplErr' = NilError /\ written' = TRUE
     \/ tmplErr' = TemplateError /\ written' \in BOOLEAN
  /\ result' = ExecuteResult(tmplErr')
  /\ pc' = "done"
  /\ UNCHANGED <<urlPath, cont, machineInfo, mgrErr, getContainerInfoCalls,
                 getMachineInfoCalls>>
  /\ UNCHANGED funcVars

NextPage ==
  \/ GetContainerInfoOk
  \/ GetContainerInfoFails
  \/ GetMachineInfoOk
  \/ GetMachineInfoFails
  \/ Execute

SpecPage == InitPage /\ [][NextPage]_vars

(***************************************************************************)
(* Properties of serveContainersPage                                       *)
(***************************************************************************)
\* the run got as far as building the page data
Built == pc = "done" /\ data # <<>>

RootCrumb == [Text |-> <<"r", "o", "o", "t">>, Link |-> ContainersPage]

\* root, then one entry per segment: the k-th has the k-th segment as text
\* and the page root joined with the first k segments as link
CrumbsOf(segments) ==
  <<RootCrumb>> \o
    [k \in 1..Len(segments) |->
       [Text |-> segments[k],
        Link |-> Join(<<ContainersPage>> \o SubSeq(segments, 1, k))]]

\* C3 as claimed: for every container path, with or without a leading
\* separator, the breadcrumbs are root and then one entry per non-empty
\* segment of the path split on "/".
C3_CrumbPerNonEmptySegment ==
  Built => data[1].ParentContainers
             = CrumbsOf(NonEmpty(Split(cont[1].Name, "/")))

\* C3 as the code has it: the breadcrumbs are root and then one entry per
\* non-empty segment after the first part of the split, the part before the
\* first "/" (empty when the path has a leading separator) being neither
\* shown nor joined into any link.
C3_CrumbPerSegmentAfterFirst ==
  Built => data[1].ParentContainers
             = CrumbsOf(NonEmpty(Tail(Split(cont[1].Name, "/"))))

\* "//a/b": an empty segment is skipped and the links join only "a" and "b"
C3_Witness ==
  /\ Built
  /\ cont[1].Name = <<"/", "/", "a", "b">>
  /\ data[1].ParentContainers
       = <<RootCrumb,
           [Text |-> <<"a", "b">>,
            Link |-> ContainersPage \o <<"a", "b">>]>>

\* GetContainerInfo failed and serveContainersPage returned
ContainerFetchFailed ==
  pc = "done" /\ getMachineInfoCalls = 0 /\ mgrErr # NilError

\* GetMachineInfo failed and serveContainersPage returned
MachineFetchFailed ==
  pc = "done" /\ getMachineInfoCalls = 1 /\ mgrErr # NilError

\* q ends with the sequence tail
EndsWith(q, tail) ==
  Len(q) >= Len(tail) /\ SubSeq(q, Len(q) - Len(tail) + 1, Len(q)) = tail

\* part occurs in q
Contains(q, part) ==
  \E i \in 1..(Len(q) - Len(part) + 1) : SubSeq(q, i, i + Len(part) - 1) = part

\* C9 as claimed: when GetContainerInfo fails because the container does not
\* exist, serveContainersPage returns the very error the manager returned.
C9_NotFoundReturnedVerbatim ==
  (ContainerFetchFailed /\ mgrErr = ErrNotFound) => result = mgrErr

\* C9 as the code has it: the failure is not recovered (the result is not
\* nil), but the error returned is a new one made by fmt.Errorf, whose text
\* names the container and ends with the text of the manager's error; only
\* a GetMachineInfo error is returned as it came.
C9_NotFoundReturnedWrapped ==
  /\ ContainerFetchFailed =>
       /\ result # NilError
       /\ result # mgrErr
       /\ result.origin = "fmt.Errorf"
       /\ EndsWith(result.msg, mgrErr.msg)
       /\ Contains(result.msg, <<"\"">> \o ContainerName(urlPath) \o <<"\"">>)
  /\ MachineFetchFailed => result = mgrErr

C9_Witness ==
  /\ ContainerFetchFailed
  /\ mgrErr = ErrNotFound
  /\ urlPath = ContainersPage \o <<"a">>
  /\ result.msg = <<"Failed to get container ", "\"", "/", "a", "\"",
                    " with error: ", "unknown container">>

\* C10: GetContainerInfo is called exactly once and never again;
\* GetMachineInfo at most once and only after GetContainerInfo succeeded; the
\* template is executed, and anything written, only after both fetches
\* succeeded; a failed fetch ends the run with a non-nil error, no further
\* fetch and nothing written; a failed template execution ends it with nil.
C10_FetchesOrderedNeverRetried ==
  /\ getContainerInfoCalls <= 1
  /\ getMachineInfoCalls <= 1
  /\ pc # "getContainerInfo" => getContainerInfoCalls = 1
  /\ getMachineInfoCalls = 1 => getContainerInfoCalls = 1 /\ cont # <<>>
  /\ (written \/ data # <<>> \/ tmplErr # NilError)
       => /\ cont # <<>> /\ machineInfo # <<>>
          /\ getContainerInfoCalls = 1 /\ getMachineInfoCalls = 1
  /\ (pc = "done" /\ mgrErr # NilError)
       => /\ result # NilError
          /\ ~ written /\ data = <<>>
          /\ cont = <<>> => getMachineInfoCalls = 0
  /\ (pc = "done" /\ tmplErr # NilError) => result = NilError

\* the template failed after writing part of the page: the run returned nil
C10_Witness ==
  /\ pc = "done"
  /\ tmplErr = TemplateError
  /\ written
  /\ result = NilError
  /\ getContainerInfoCalls = 1
  /\ getMachineInfoCalls = 1

=============================================================================
